---- MODULE Spec2Model ----
(***************************************************************************)
(* Model of the attendance QR-credential subsystem of the smart-campus     *)
(* backend: the Flask handlers of app/routers/flask_attendance.py and the  *)
(* AttendanceService methods of app/routers/attendance.py, over the        *)
(* MongoDB collections classes, qr_codes and attendance.                   *)
(*                                                                         *)
(* Time is counted in whole seconds since midnight of day 0 (UTC).         *)
(***************************************************************************)
EXTENDS Integers, Sequences, FiniteSets, TLC

VARIABLES
    clock,              \* datetime.utcnow()
    indexed,            \* TRUE iff init_database.py created the unique indexes
    classes,            \* db.classes: sequence of class documents, _id = position
    qr_codes,           \* db.qr_codes: sequence of credential documents, qr_hash = position
    attendance,         \* db.attendance: sequence of attendance documents
    rate_limit_cache,   \* module-level dict of attendance.py: user -> last successful scan
    response,           \* outcome of the handler that returned last
    procs,              \* in-flight scan requests (one entry per concurrent request)
    request,            \* caller identity and JSON body of the last posted scan request
    limiter,            \* RateLimitUtils._rate_limit_store and the calls it granted
    meal_qr,            \* one CafeteriaQRCodeModel object
    db_manager          \* the DatabaseManager instance and the position of its connect()

vars == <<clock, indexed, classes, qr_codes, attendance, rate_limit_cache, response, procs,
          request, limiter, meal_qr, db_manager>>

----------------------------------------------------------------------------
(* Durations and time arithmetic                                           *)

Minute == 60
Hour == 3600
Day == 86400

\* datetime.date() / replace(hour=0, minute=0, second=0, microsecond=0)
DateOf(t) == (t \div Day) * Day

\* datetime.combine(d.date(), time_of_day)
Combine(d, tod) == DateOf(d) + tod

\* datetime.isoformat(): "<date>T<time of day>"
IsoFormat(t) == <<t \div Day, t % Day>>

\* datetime.fromisoformat()
FromIsoFormat(s) == s[1] * Day + s[2]

\* timedelta.seconds: the seconds field of the normalised (days, seconds) pair
TimedeltaSeconds(d) == d % Day

At(d, h, m, s) == d * Day + h * Hour + m * Minute + s

----------------------------------------------------------------------------
(* Bounds of the model                                                     *)

MaxClasses == 2
MaxQR == 2
MaxAttendance == 2
NProcs == 2

----------------------------------------------------------------------------
(* Users (the users collection is maintained outside this subsystem)       *)

Students == {"u1", "u2"}
Instructors == {"i1", "i2"}
Users == Students \cup Instructors

is_instructor(u) == u \in Instructors

NoUser == "nobody"

\* Program constants
GracePeriod == 15 * Minute
QRLifetime == 2 * Hour
Cooldown == 30

\* Requests for a class: date, start_time, end_time, course_code
ClassT1 == [date |-> At(1, 0, 0, 0), start_time |-> 30 * Minute,
            end_time |-> 90 * Minute, course_code |-> "T1"]
ClassT2 == [date |-> At(1, 0, 0, 0), start_time |-> 30 * Minute,
            end_time |-> 40 * Minute, course_code |-> "T2"]
ClassT3 == [date |-> At(1, 0, 0, 0), start_time |-> 10 * Hour,
            end_time |-> 11 * Hour, course_code |-> "T3"]
ClassT4 == [date |-> At(0, 23, 0, 0), start_time |-> 23 * Hour + 30 * Minute,
            end_time |-> 23 * Hour + 50 * Minute, course_code |-> "T4"]
ClassT5 == [date |-> At(1, 12, 0, 0), start_time |-> 8 * Hour,
            end_time |-> 9 * Hour, course_code |-> "T5"]
ClassT6 == [date |-> At(1, 0, 0, 0), start_time |-> 10 * Hour,
            end_time |-> 9 * Hour, course_code |-> "T6"]
ClassT7 == [date |-> At(2, 0, 0, 0), start_time |-> 30 * Minute,
            end_time |-> 90 * Minute, course_code |-> "T7"]

\* Flask parses the date with "%Y-%m-%d": always midnight
FlaskClassRequests == {ClassT1, ClassT2, ClassT3, ClassT6}
\* ClassCreate.date is a datetime: any time of day
SvcClassRequests == {ClassT1, ClassT2, ClassT3, ClassT4, ClassT5, ClassT7}

----------------------------------------------------------------------------
(* Responses                                                               *)

NoResponse == [op |-> "none", impl |-> "none", user |-> NoUser, arg |-> 0,
               code |-> 0, detail |-> "", at |-> 0]

Resp(op, impl, user, arg, code, detail) ==
    [op |-> op, impl |-> impl, user |-> user, arg |-> arg,
     code |-> code, detail |-> detail, at |-> clock]

NoScan == -1

\* A request that has not started: pc is the position of the request in
\* scan_qr_code, exit the statement it returned from, doc the attendance
\* document it has built
IdleProc == [pc |-> "idle", impl |-> "none", user |-> NoUser, qr |-> 0,
             doc |-> <<>>, exit |-> "none", code |-> 0]

\* No scan request posted yet
NoRequest == [identity |-> NoUser, qr_code |-> 0, user_id |-> NoUser]

\* Keys of RateLimitUtils._rate_limit_store used by the callers
LimiterKeys == {"k1", "k2"}

\* _rate_limit_store before any call; granted lists the time of every call
\* that returned True and calls counts the calls made
EmptyLimiter ==
    [store |-> [k \in LimiterKeys |-> <<>>],
     granted |-> [k \in LimiterKeys |-> <<>>],
     calls |-> 0]

\* CafeteriaQRCodeModel.__init__ with the defaults: is_used = False,
\* created_at = utcnow(), expires_at = created_at + 24 h
NewMealCode(now) == [is_used |-> FALSE, used_at |-> NoScan, scanned_by |-> NoUser,
                     created_at |-> now, expires_at |-> now + 24 * Hour]

\* DatabaseManager.__init__ ; pc is the position of connect(), attempt its
\* loop variable, outcomes and slept the attempts and the waits of the
\* current call, calls the number of calls of connect()
NewDatabaseManager ==
    [pc |-> "idle", attempt |-> 0, client |-> FALSE,
     _connection_attempts |-> 0, _is_connected |-> FALSE,
     outcomes |-> <<>>, slept |-> <<>>, calls |-> 0]

Init ==
    /\ clock = At(0, 22, 0, 0)
    /\ indexed \in BOOLEAN
    /\ classes = <<>>
    /\ qr_codes = <<>>
    /\ attendance = <<>>
    /\ rate_limit_cache = [u \in Users |-> NoScan]
    /\ response = NoResponse
    /\ procs = [p \in 1..NProcs |-> IdleProc]
    /\ request = NoRequest
    /\ limiter = EmptyLimiter
    /\ meal_qr = NewMealCode(clock)
    /\ db_manager = NewDatabaseManager

\* Passage of time between requests
Tick(I) ==
    /\ \E t \in I : t > clock /\ clock' = t
    /\ UNCHANGED <<indexed, classes, qr_codes, attendance, rate_limit_cache, response, procs,
                 request, limiter, meal_qr, db_manager>>

----------------------------------------------------------------------------
(* create_class                                                            *)

\* conflict_query of create_class
ClassConflict(instructor_id, req) ==
    \E i \in 1..Len(classes) :
        /\ classes[i].instructor_id = instructor_id
        /\ classes[i].date = req.date
        /\ classes[i].start_time < req.end_time
        /\ classes[i].end_time > req.start_time

\* unique index on classes.course_code (init_database.py)
ClassDuplicateKey(req) ==
    indexed /\ \E i \in 1..Len(classes) : classes[i].course_code = req.course_code

ClassDoc(instructor_id, req) ==
    [instructor_id |-> instructor_id, date |-> req.date,
     start_time |-> req.start_time, end_time |-> req.end_time,
     course_code |-> req.course_code, is_active |-> TRUE,
     current_qr_code |-> 0, qr_generated_at |-> NoScan]

\* flask_attendance.create_class
FlaskCreateClass(caller, req) ==
    /\ Len(classes) < MaxClasses
    /\ IF ~is_instructor(caller)
       THEN /\ response' = Resp("create_class", "flask", caller, 0, 403,
                                "Only instructors can create classes")
            /\ UNCHANGED classes
       ELSE IF ClassConflict(caller, req)
       THEN /\ response' = Resp("create_class", "flask", caller, 0, 409,
                                "Class time conflicts with existing class")
            /\ UNCHANGED classes
       ELSE IF ClassDuplicateKey(req)
       THEN /\ response' = Resp("create_class", "flask", caller, 0, 500,
                                "Internal server error")
            /\ UNCHANGED classes
       ELSE /\ classes' = Append(classes, ClassDoc(caller, req))
            /\ response' = Resp("create_class", "flask", caller, Len(classes) + 1, 201,
                                "Class created successfully")
    /\ UNCHANGED <<clock, indexed, qr_codes, attendance, rate_limit_cache, procs,
                 request, limiter, meal_qr, db_manager>>

\* AttendanceService.create_class
SvcCreateClass(instructor_id, req) ==
    /\ Len(classes) < MaxClasses
    /\ IF instructor_id \notin Users
       THEN /\ response' = Resp("create_class", "svc", instructor_id, 0, 404,
                                "Instructor not found")
            /\ UNCHANGED classes
       ELSE IF ClassConflict(instructor_id, req)
       THEN /\ response' = Resp("create_class", "svc", instructor_id, 0, 409,
                                "Class time conflicts with existing class")
            /\ UNCHANGED classes
       ELSE IF ClassDuplicateKey(req)
       THEN /\ response' = Resp("create_class", "svc", instructor_id, 0, 500,
                                "Failed to create class")
            /\ UNCHANGED classes
       ELSE /\ classes' = Append(classes, ClassDoc(instructor_id, req))
            /\ response' = Resp("create_class", "svc", instructor_id, Len(classes) + 1, 200,
                                "Class created")
    /\ UNCHANGED <<clock, indexed, qr_codes, attendance, rate_limit_cache, procs,
                 request, limiter, meal_qr, db_manager>>

----------------------------------------------------------------------------
(* Deactivation.  create_class stores is_active = True and get_classes     *)
(* filters on the flag (?is_active=false lists the inactive classes), but  *)
(* no handler clears it: a class is deactivated by a write to db.classes   *)
(* made outside these handlers.                                            *)

DeactivateClass(class_id) ==
    /\ class_id \in 1..Len(classes)
    /\ classes[class_id].is_active
    /\ classes' = [classes EXCEPT ![class_id].is_active = FALSE]
    /\ UNCHANGED <<clock, indexed, qr_codes, attendance, rate_limit_cache, response, procs,
                 request, limiter, meal_qr, db_manager>>

----------------------------------------------------------------------------
(* generate_qr_code                                                        *)

\* expires_at of a new credential: qr_data["expires_at"] is written with
\* isoformat() and read back with fromisoformat()
QRExpiresAt(class_data) == FromIsoFormat(IsoFormat(class_data.date + QRLifetime))

QRDoc(class_id, class_data, created_by) ==
    [class_id |-> class_id, expires_at |-> QRExpiresAt(class_data),
     is_active |-> TRUE, created_at |-> clock, created_by |-> created_by]

\* "Cannot generate QR code for past classes"
PastClass(class_data, now) == DateOf(class_data.date) < DateOf(now)

\* The ownership check left out: any caller passes
NotOwnerUnchecked(class_data, caller) == FALSE

\* "Check if instructor owns this class"
NotOwner(class_data, caller) == class_data.instructor_id # caller

\* The store with the class's earlier credentials deactivated on issuance
StoreQRRotate(class_id, created_by) ==
    /\ qr_codes' = Append([h \in 1..Len(qr_codes) |->
                              IF qr_codes[h].class_id = class_id
                              THEN [qr_codes[h] EXCEPT !.is_active = FALSE]
                              ELSE qr_codes[h]],
                          QRDoc(class_id, classes[class_id], created_by))
    /\ classes' = [classes EXCEPT ![class_id].current_qr_code = Len(qr_codes) + 1,
                                  ![class_id].qr_generated_at = clock]

\* db.qr_codes.insert_one followed by db.classes.update_one
StoreQR(class_id, created_by) ==
    /\ qr_codes' = Append(qr_codes, QRDoc(class_id, classes[class_id], created_by))
    /\ classes' = [classes EXCEPT ![class_id].current_qr_code = Len(qr_codes) + 1,
                                  ![class_id].qr_generated_at = clock]

\* flask_attendance.generate_qr_code
FlaskGenerateQR(caller, class_id) ==
    /\ Len(qr_codes) < MaxQR
    /\ IF caller \notin Users \/ ~is_instructor(caller)
       THEN /\ response' = Resp("generate_qr_code", "flask", caller, class_id, 403,
                                "Only instructors can generate QR codes")
            /\ UNCHANGED <<qr_codes, classes>>
       ELSE IF class_id \notin 1..Len(classes)
       THEN /\ response' = Resp("generate_qr_code", "flask", caller, class_id, 404,
                                "Class not found")
            /\ UNCHANGED <<qr_codes, classes>>
       ELSE IF NotOwner(classes[class_id], caller)
       THEN /\ response' = Resp("generate_qr_code", "flask", caller, class_id, 403,
                                "Only class instructor can generate QR codes")
            /\ UNCHANGED <<qr_codes, classes>>
       ELSE IF PastClass(classes[class_id], clock)
       THEN /\ response' = Resp("generate_qr_code", "flask", caller, class_id, 400,
                                "Cannot generate QR code for past classes")
            /\ UNCHANGED <<qr_codes, classes>>
       ELSE /\ StoreQR(class_id, caller)
            /\ response' = Resp("generate_qr_code", "flask", caller, class_id, 200,
                                "QR code generated")
    /\ UNCHANGED <<clock, indexed, attendance, rate_limit_cache, procs,
                 request, limiter, meal_qr, db_manager>>

\* AttendanceService.generate_qr_code
SvcGenerateQR(instructor_id, class_id) ==
    /\ Len(qr_codes) < MaxQR
    /\ IF class_id \notin 1..Len(classes)
       THEN /\ response' = Resp("generate_qr_code", "svc", instructor_id, class_id, 404,
                                "Class not found")
            /\ UNCHANGED <<qr_codes, classes>>
       ELSE IF NotOwner(classes[class_id], instructor_id)
       THEN /\ response' = Resp("generate_qr_code", "svc", instructor_id, class_id, 403,
                                "Only class instructor can generate QR codes")
            /\ UNCHANGED <<qr_codes, classes>>
       ELSE IF PastClass(classes[class_id], clock)
       THEN /\ response' = Resp("generate_qr_code", "svc", instructor_id, class_id, 400,
                                "Cannot generate QR code for past classes")
            /\ UNCHANGED <<qr_codes, classes>>
       ELSE /\ StoreQR(class_id, instructor_id)
            /\ response' = Resp("generate_qr_code", "svc", instructor_id, class_id, 200,
                                "QR code generated")
    /\ UNCHANGED <<clock, indexed, attendance, rate_limit_cache, procs,
                 request, limiter, meal_qr, db_manager>>

----------------------------------------------------------------------------
(* scan_qr_code                                                            *)

\* The credential checks with the expiry comparison inverted
QRCheckInverted(qr, now) ==
    IF qr \notin 1..Len(qr_codes) THEN "Invalid QR code"
    ELSE IF ~qr_codes[qr].is_active THEN "QR code is no longer active"
    ELSE IF now < qr_codes[qr].expires_at THEN "QR code has expired"
    ELSE "ok"

\* Credential checks of scan_qr_code, in the order of the code
QRCheck(qr, now) ==
    IF qr \notin 1..Len(qr_codes) THEN "Invalid QR code"
    ELSE IF ~qr_codes[qr].is_active THEN "QR code is no longer active"
    ELSE IF now > qr_codes[qr].expires_at THEN "QR code has expired"
    ELSE "ok"

\* existing_attendance query: class_id, user_id, date >= today's midnight
ExistingAttendance(att, class_id, user_id, now) ==
    \E i \in 1..Len(att) :
        /\ att[i].class_id = class_id
        /\ att[i].user_id = user_id
        /\ att[i].date >= DateOf(now)

\* The classification with the grace boundary excluded (now < start + 15 min)
AttendanceStatusAtStrict(now, class_data) ==
    LET class_start == Combine(class_data.date, class_data.start_time)
        class_end == Combine(class_data.date, class_data.end_time)
    IN  IF now < class_start THEN "early"
        ELSE IF now < class_start + GracePeriod THEN "present"
        ELSE IF now <= class_end THEN "late"
        ELSE "absent"

\* "Determine attendance status based on time"
AttendanceStatusAt(now, class_data) ==
    LET class_start == Combine(class_data.date, class_data.start_time)
        class_end == Combine(class_data.date, class_data.end_time)
    IN  IF now < class_start THEN "early"
        ELSE IF now <= class_start + GracePeriod THEN "present"
        ELSE IF now <= class_end THEN "late"
        ELSE "absent"

AttendanceDoc(class_id, user_id, qr, now, status) ==
    [class_id |-> class_id, user_id |-> user_id, date |-> classes[class_id].date,
     check_in_time |-> now, status |-> status, qr_code |-> qr]

\* unique indexes on attendance (user_id, class_id, date) and on qr_code
AttendanceDuplicateKey(att, doc) ==
    indexed /\ \E i \in 1..Len(att) :
        \/ /\ att[i].user_id = doc.user_id
           /\ att[i].class_id = doc.class_id
           /\ att[i].date = doc.date
        \/ att[i].qr_code = doc.qr_code

\* Members of the AttendanceStatus enum
AttendanceStatusMembers == {"present", "absent", "late", "excused", "tardy"}

\* scan_qr_code with the existing record overwritten on a repeated scan
FlaskScanUpsert(user, qr) ==
    /\ Len(attendance) < MaxAttendance
    /\ LET check == QRCheck(qr, clock)
           class_id == qr_codes[qr].class_id
           doc == AttendanceDoc(class_id, user, qr, clock,
                                AttendanceStatusAt(clock, classes[class_id]))
       IN  IF user \notin Users
           THEN /\ response' = Resp("scan_qr_code", "flask", user, qr, 404, "User not found")
                /\ UNCHANGED attendance
           ELSE IF check # "ok"
           THEN /\ response' = Resp("scan_qr_code", "flask", user, qr, 400, check)
                /\ UNCHANGED attendance
           ELSE IF ExistingAttendance(attendance, class_id, user, clock)
           THEN /\ response' = Resp("scan_qr_code", "flask", user, qr, 409,
                                    "Attendance already marked for this class today")
                /\ attendance' = [i \in 1..Len(attendance) |->
                       IF attendance[i].class_id = class_id /\ attendance[i].user_id = user
                       THEN doc ELSE attendance[i]]
           ELSE IF class_id \notin 1..Len(classes)
           THEN /\ response' = Resp("scan_qr_code", "flask", user, qr, 404, "Class not found")
                /\ UNCHANGED attendance
           ELSE IF AttendanceDuplicateKey(attendance, doc)
           THEN /\ response' = Resp("scan_qr_code", "flask", user, qr, 500,
                                    "Internal server error")
                /\ UNCHANGED attendance
           ELSE /\ attendance' = Append(attendance, doc)
                /\ response' = Resp("scan_qr_code", "flask", user, qr, 200,
                                    "Attendance marked successfully")
    /\ UNCHANGED <<clock, indexed, classes, qr_codes, rate_limit_cache, procs,
                 request, limiter, meal_qr, db_manager>>

\* flask_attendance.scan_qr_code for the authenticated user and the presented hash
FlaskMarkAttendance(user, qr) ==
    /\ Len(attendance) < MaxAttendance
    /\ LET check == QRCheck(qr, clock)
           class_id == qr_codes[qr].class_id
           doc == AttendanceDoc(class_id, user, qr, clock,
                                AttendanceStatusAt(clock, classes[class_id]))
       IN  IF user \notin Users
           THEN /\ response' = Resp("scan_qr_code", "flask", user, qr, 404, "User not found")
                /\ UNCHANGED attendance
           ELSE IF check # "ok"
           THEN /\ response' = Resp("scan_qr_code", "flask", user, qr, 400, check)
                /\ UNCHANGED attendance
           ELSE IF ExistingAttendance(attendance, class_id, user, clock)
           THEN /\ response' = Resp("scan_qr_code", "flask", user, qr, 409,
                                    "Attendance already marked for this class today")
                /\ UNCHANGED attendance
           ELSE IF class_id \notin 1..Len(classes)
           THEN /\ response' = Resp("scan_qr_code", "flask", user, qr, 404, "Class not found")
                /\ UNCHANGED attendance
           ELSE IF AttendanceDuplicateKey(attendance, doc)
           THEN /\ response' = Resp("scan_qr_code", "flask", user, qr, 500,
                                    "Internal server error")
                /\ UNCHANGED attendance
           ELSE /\ attendance' = Append(attendance, doc)
                /\ response' = Resp("scan_qr_code", "flask", user, qr, 200,
                                    "Attendance marked successfully")
    /\ UNCHANGED <<clock, indexed, classes, qr_codes, rate_limit_cache, procs,
                 limiter, meal_qr, db_manager>>

\* flask_attendance.scan_qr_code, the request body left aside
FlaskScan(user, qr) ==
    /\ FlaskMarkAttendance(user, qr)
    /\ UNCHANGED request

\* The rate-limiting check with one key shared by all users
RateLimitedShared(cache, user, now) ==
    \E v \in DOMAIN cache :
        /\ cache[v] # NoScan
        /\ TimedeltaSeconds(now - cache[v]) < Cooldown

\* "Rate limiting check" of AttendanceService.scan_qr_code
RateLimited(cache, user, now) ==
    /\ cache[user] # NoScan
    /\ TimedeltaSeconds(now - cache[user]) < Cooldown

\* Every raise CustomHTTPException(status_code=status.HTTP_...) of
\* AttendanceService.scan_qr_code reads the name status, which the later
\* assignments status = AttendanceStatus.X make local to the method: the read
\* raises UnboundLocalError, and the method's except Exception clause turns
\* it into DatabaseError("Failed to process attendance").
SvcRaise(user, qr, status_code, detail) ==
    Resp("scan_qr_code", "svc", user, qr, 500, "Failed to process attendance")

\* scan_qr_code with the rate-limit stamp written on the duplicate path as well
SvcScanStamped(user, qr) ==
    /\ Len(attendance) < MaxAttendance
    /\ LET check == QRCheck(qr, clock)
           class_id == qr_codes[qr].class_id
           status == AttendanceStatusAt(clock, classes[class_id])
           doc == AttendanceDoc(class_id, user, qr, clock, status)
       IN  IF RateLimited(rate_limit_cache, user, clock)
           THEN /\ response' = SvcRaise(user, qr, 429, "Please wait before scanning again")
                /\ UNCHANGED <<attendance, rate_limit_cache>>
           ELSE IF check # "ok"
           THEN /\ response' = SvcRaise(user, qr, 400, check)
                /\ UNCHANGED <<attendance, rate_limit_cache>>
           ELSE IF ExistingAttendance(attendance, class_id, user, clock)
           THEN /\ response' = Resp("scan_qr_code", "svc", user, qr, 409,
                                    "Attendance already marked for this class today")
                /\ rate_limit_cache' = [rate_limit_cache EXCEPT ![user] = clock]
                /\ UNCHANGED attendance
           ELSE IF class_id \notin 1..Len(classes) \/ user \notin Users
           THEN /\ response' = SvcRaise(user, qr, 404, "Class or user not found")
                /\ UNCHANGED <<attendance, rate_limit_cache>>
           ELSE IF status \notin AttendanceStatusMembers
           THEN \* AttendanceStatus.EARLY raises AttributeError
                /\ response' = Resp("scan_qr_code", "svc", user, qr, 500,
                                    "Failed to process attendance")
                /\ UNCHANGED <<attendance, rate_limit_cache>>
           ELSE IF AttendanceDuplicateKey(attendance, doc)
           THEN /\ response' = Resp("scan_qr_code", "svc", user, qr, 500,
                                    "Failed to process attendance")
                /\ UNCHANGED <<attendance, rate_limit_cache>>
           ELSE /\ attendance' = Append(attendance, doc)
                /\ rate_limit_cache' = [rate_limit_cache EXCEPT ![user] = clock]
                /\ response' = Resp("scan_qr_code", "svc", user, qr, 200,
                                    "Attendance marked successfully")
    /\ UNCHANGED <<clock, indexed, classes, qr_codes, procs,
                 request, limiter, meal_qr, db_manager>>

\* AttendanceService.scan_qr_code as surfaced by the scan_qr endpoint
SvcMarkAttendance(user, qr) ==
    /\ Len(attendance) < MaxAttendance
    /\ LET check == QRCheck(qr, clock)
           class_id == qr_codes[qr].class_id
           status == AttendanceStatusAt(clock, classes[class_id])
           doc == AttendanceDoc(class_id, user, qr, clock, status)
       IN  IF RateLimited(rate_limit_cache, user, clock)
           THEN /\ response' = SvcRaise(user, qr, 429, "Please wait before scanning again")
                /\ UNCHANGED <<attendance, rate_limit_cache>>
           ELSE IF check # "ok"
           THEN /\ response' = SvcRaise(user, qr, 400, check)
                /\ UNCHANGED <<attendance, rate_limit_cache>>
           ELSE IF ExistingAttendance(attendance, class_id, user, clock)
           THEN /\ response' = Resp("scan_qr_code", "svc", user, qr, 409,
                                    "Attendance already marked for this class today")
                /\ UNCHANGED <<attendance, rate_limit_cache>>
           ELSE IF class_id \notin 1..Len(classes) \/ user \notin Users
           THEN /\ response' = SvcRaise(user, qr, 404, "Class or user not found")
                /\ UNCHANGED <<attendance, rate_limit_cache>>
           ELSE IF status \notin AttendanceStatusMembers
           THEN \* AttendanceStatus.EARLY raises AttributeError
                /\ response' = Resp("scan_qr_code", "svc", user, qr, 500,
                                    "Failed to process attendance")
                /\ UNCHANGED <<attendance, rate_limit_cache>>
           ELSE IF AttendanceDuplicateKey(attendance, doc)
           THEN /\ response' = Resp("scan_qr_code", "svc", user, qr, 500,
                                    "Failed to process attendance")
                /\ UNCHANGED <<attendance, rate_limit_cache>>
           ELSE /\ attendance' = Append(attendance, doc)
                /\ rate_limit_cache' = [rate_limit_cache EXCEPT ![user] = clock]
                /\ response' = Resp("scan_qr_code", "svc", user, qr, 200,
                                    "Attendance marked successfully")
    /\ UNCHANGED <<clock, indexed, classes, qr_codes, procs,
                 limiter, meal_qr, db_manager>>

\* AttendanceService.scan_qr_code, the request body left aside
SvcScan(user, qr) ==
    /\ SvcMarkAttendance(user, qr)
    /\ UNCHANGED request

----------------------------------------------------------------------------
(* scan requests with their JSON body: qr_code and a user_id field          *)
(* (QRCodeScan.user_id; any key of the Flask request's JSON)                *)

\* The user taken from the request body
AttendeeOfBody(identity, data) == data.user_id

\* user_id of the attendance document: current_user["_id"], where
\* current_user is the account of the JWT identity
AttendeeOf(identity, data) == identity

ScanBodies == [qr_code : 1..MaxQR, user_id : Students]

\* POST /scan-qr of the Flask blueprint
FlaskScanRequest(identity, data) ==
    /\ FlaskMarkAttendance(AttendeeOf(identity, data), data.qr_code)
    /\ request' = [identity |-> identity, qr_code |-> data.qr_code,
                   user_id |-> data.user_id]

\* POST /scan-qr of the FastAPI router: scan_qr and AttendanceService.scan_qr_code
SvcScanRequest(identity, data) ==
    /\ SvcMarkAttendance(AttendeeOf(identity, data), data.qr_code)
    /\ request' = [identity |-> identity, qr_code |-> data.qr_code,
                   user_id |-> data.user_id]

----------------------------------------------------------------------------
(* RateLimitUtils.check_rate_limit                                          *)

MaxCalls == 5

\* The arguments every call of the model passes
max_requests == 2
window_minutes == 1
window_seconds == window_minutes * 60

\* The timestamps the comprehension keeps
InWindow(timestamps, current_time) ==
    SelectSeq(timestamps, LAMBDA timestamp : current_time - timestamp < window_seconds)

\* The limit test with a strict comparison
LimitExceededStrict(timestamps) == Len(timestamps) > max_requests

\* if len(_rate_limit_store[key]) >= max_requests
LimitExceeded(timestamps) == Len(timestamps) >= max_requests

\* check_rate_limit(key, max_requests, window_minutes) at time.time() = clock
CheckRateLimit(key) ==
    /\ limiter.calls < MaxCalls
    /\ LET kept == InWindow(limiter.store[key], clock)
           ok == ~ LimitExceeded(kept)
       IN  /\ limiter' =
                [store |-> [limiter.store EXCEPT
                              ![key] = IF ok THEN Append(kept, clock) ELSE kept],
                 granted |-> [limiter.granted EXCEPT
                              ![key] = IF ok THEN Append(@, clock) ELSE @],
                 calls |-> limiter.calls + 1]
           /\ response' = Resp("check_rate_limit", "utils", key, Len(kept), 0,
                               IF ok THEN "True" ELSE "False")
    /\ UNCHANGED <<clock, indexed, classes, qr_codes, attendance, rate_limit_cache, procs,
                 request, meal_qr, db_manager>>

----------------------------------------------------------------------------
(* CafeteriaQRCodeModel                                                     *)

Admins == {"a1", "a2"}

\* is_expired: datetime.utcnow() > self.expires_at
is_expired(m, now) == now > m.expires_at

\* The validity test without the is_used flag
is_valid_unexpired(m, now) == ~ is_expired(m, now)

\* is_valid: not self.is_used and not self.is_expired()
is_valid(m, now) == ~ m.is_used /\ ~ is_expired(m, now)

\* mark_as_used(admin_id)
MarkAsUsed(admin_id) ==
    /\ meal_qr' = [meal_qr EXCEPT !.is_used = TRUE, !.used_at = clock,
                                  !.scanned_by = admin_id]
    /\ response' = Resp("mark_as_used", "cafeteria", admin_id, 0, 0, "None")
    /\ UNCHANGED <<clock, indexed, classes, qr_codes, attendance, rate_limit_cache, procs,
                 request, limiter, db_manager>>

\* A call of is_valid(), its return value kept in response.detail
IsValid ==
    /\ response' = Resp("is_valid", "cafeteria", NoUser, 0, 0,
                        IF is_valid(meal_qr, clock) THEN "True" ELSE "False")
    /\ UNCHANGED <<clock, indexed, classes, qr_codes, attendance, rate_limit_cache, procs,
                 request, limiter, meal_qr, db_manager>>

----------------------------------------------------------------------------
(* DatabaseManager.connect                                                  *)

MaxConnects == 2

_max_retries == 3
_retry_delay == 1

\* What one pass of the try block can do: reach return True; raise
\* ConnectionFailure, ServerSelectionTimeoutError or OperationFailure from a
\* ping; raise another exception after the client was created; raise another
\* exception from the client's constructor
AttemptOutcomes == {"ok", "connection_error", "other_error", "client_error"}

RECURSIVE Pow2(_)
Pow2(n) == IF n = 0 THEN 1 ELSE 2 * Pow2(n - 1)

\* Every exception taken by the first except clause
CaughtAsConnectionErrorAny(outcome) == outcome # "ok"

\* except (ConnectionFailure, ServerSelectionTimeoutError, OperationFailure)
CaughtAsConnectionError(outcome) == outcome = "connection_error"

DbReturn(d, result) ==
    /\ db_manager' = [d EXCEPT !.pc = "returned"]
    /\ response' = Resp("connect", "database", NoUser, Len(d.outcomes), 0,
                        IF result THEN "True" ELSE "False")

\* connect() is called: the early return, or entry into the loop
Connect ==
    /\ db_manager.pc \in {"idle", "returned"}
    /\ db_manager.calls < MaxConnects
    /\ LET d == [db_manager EXCEPT !.calls = @ + 1, !.attempt = 0,
                                   !.outcomes = <<>>, !.slept = <<>>]
       IN  IF db_manager._is_connected /\ db_manager.client
           THEN DbReturn(d, TRUE)
           ELSE /\ db_manager' = [d EXCEPT !.pc = "attempt"]
                /\ UNCHANGED response
    /\ UNCHANGED <<clock, indexed, classes, qr_codes, attendance, rate_limit_cache, procs,
                 request, limiter, meal_qr>>

\* One pass of the loop body up to its return or its sleep
ConnectAttempt(outcome) ==
    /\ db_manager.pc = "attempt"
    /\ LET d == [db_manager EXCEPT
                   !.outcomes = Append(@, outcome),
                   !.client = IF outcome = "client_error" THEN @ ELSE TRUE]
       IN  IF outcome = "ok"
           THEN DbReturn([d EXCEPT !._is_connected = TRUE,
                                   !._connection_attempts = 0], TRUE)
           ELSE IF CaughtAsConnectionError(outcome)
           THEN IF d.attempt < _max_retries - 1
                THEN /\ db_manager' = [d EXCEPT !._connection_attempts = @ + 1,
                                                !.pc = "sleep"]
                     /\ UNCHANGED response
                ELSE DbReturn([d EXCEPT !._connection_attempts = @ + 1,
                                        !._is_connected = FALSE], FALSE)
           ELSE DbReturn([d EXCEPT !._is_connected = FALSE], FALSE)
    /\ UNCHANGED <<clock, indexed, classes, qr_codes, attendance, rate_limit_cache, procs,
                 request, limiter, meal_qr>>

\* await asyncio.sleep(wait_time), then the next iteration
ConnectSleep ==
    /\ db_manager.pc = "sleep"
    /\ LET wait_time == _retry_delay * Pow2(db_manager.attempt)
       IN  /\ clock' = clock + wait_time
           /\ db_manager' = [db_manager EXCEPT !.slept = Append(@, wait_time),
                                               !.attempt = @ + 1,
                                               !.pc = "attempt"]
    /\ UNCHANGED <<indexed, classes, qr_codes, attendance, rate_limit_cache, response, procs,
                 request, limiter, meal_qr>>

\* disconnect()
Disconnect ==
    /\ db_manager.pc \in {"idle", "returned"}
    /\ db_manager.client \/ db_manager._is_connected \/ db_manager.pc = "returned"
    /\ db_manager' = [db_manager EXCEPT !._is_connected = FALSE, !.client = FALSE,
                                        !.pc = "idle"]
    /\ UNCHANGED <<clock, indexed, classes, qr_codes, attendance, rate_limit_cache, response,
                 procs, request, limiter, meal_qr>>

----------------------------------------------------------------------------

(* scan_qr_code as concurrent requests: a request gives way to the others  *)
(* at its database calls (threads of the Flask server, awaits of the       *)
(* service), so its credential lookup, its existing-attendance query and   *)
(* its insert are separate steps.                                          *)

Return(p, exit, code) ==
    procs' = [procs EXCEPT ![p].pc = "done", ![p].exit = exit, ![p].code = code]

\* From the entry of scan_qr_code to the credential checks
ScanBegin(p, impl, user, qr) ==
    /\ procs[p].pc = "idle"
    /\ LET started == [procs[p] EXCEPT !.impl = impl, !.user = user, !.qr = qr]
       IN  IF impl = "svc" /\ RateLimited(rate_limit_cache, user, clock)
           THEN procs' = [procs EXCEPT ![p] =
                    [started EXCEPT !.pc = "done", !.exit = "rate_limit", !.code = 500]]
           ELSE IF QRCheck(qr, clock) # "ok"
           THEN procs' = [procs EXCEPT ![p] =
                    [started EXCEPT !.pc = "done", !.exit = "qr_check",
                                    !.code = IF impl = "svc" THEN 500 ELSE 400]]
           ELSE procs' = [procs EXCEPT ![p] = [started EXCEPT !.pc = "validated"]]
    /\ UNCHANGED <<clock, indexed, classes, qr_codes, attendance, rate_limit_cache, response,
                 request, limiter, meal_qr, db_manager>>

\* The existing-attendance query, the class lookup and the classification
ScanFindExisting(p) ==
    /\ procs[p].pc = "validated"
    /\ LET me == procs[p]
           class_id == qr_codes[me.qr].class_id
           status == AttendanceStatusAt(clock, classes[class_id])
       IN  IF ExistingAttendance(attendance, class_id, me.user, clock)
           THEN Return(p, "existing", 409)
           ELSE IF class_id \notin 1..Len(classes)
           THEN Return(p, "not_found", IF me.impl = "svc" THEN 500 ELSE 404)
           ELSE IF me.impl = "svc" /\ status \notin AttendanceStatusMembers
           THEN Return(p, "status", 500)
           ELSE procs' = [procs EXCEPT ![p].pc = "checked",
                            ![p].doc = <<AttendanceDoc(class_id, me.user, me.qr, clock, status)>>]
    /\ UNCHANGED <<clock, indexed, classes, qr_codes, attendance, rate_limit_cache, response,
                 request, limiter, meal_qr, db_manager>>

\* db.attendance.insert_one and the return
ScanInsert(p) ==
    /\ procs[p].pc = "checked"
    /\ Len(attendance) < MaxAttendance
    /\ LET me == procs[p]
           doc == me.doc[1]
       IN  IF AttendanceDuplicateKey(attendance, doc)
           THEN /\ Return(p, "insert_error", 500)
                /\ UNCHANGED <<attendance, rate_limit_cache>>
           ELSE /\ attendance' = Append(attendance, doc)
                /\ rate_limit_cache' =
                      IF me.impl = "svc"
                      THEN [rate_limit_cache EXCEPT ![me.user] = doc.check_in_time]
                      ELSE rate_limit_cache
                /\ Return(p, "inserted", 200)
    /\ UNCHANGED <<clock, indexed, classes, qr_codes, response,
                 request, limiter, meal_qr, db_manager>>

----------------------------------------------------------------------------
(* Specifications.  Every specification runs the same handlers from the  *)
(* same initial state; they differ in the requests and clock readings      *)
(* that are enumerated.                                                    *)

\* Classification: a long class (T1) and a class shorter than the grace
\* period (T2), scanned around start, start + 15 min and end.
Instants == {
    At(0, 22, 0, 0), At(1, 0, 30, 0), At(1, 0, 42, 0), At(1, 0, 45, 0),
    At(1, 1, 30, 0), At(1, 1, 31, 0) }

Next ==
    \/ Tick(Instants)
    \/ \E r \in {ClassT1, ClassT2} : FlaskCreateClass("i1", r)
    \/ \E k \in 1..MaxClasses : FlaskGenerateQR("i1", k)
    \/ \E u \in {"u1"}, h \in 1..MaxQR : FlaskScan(u, h)
    \/ \E u \in {"u2"}, h \in 1..MaxQR : SvcScan(u, h)

Spec == Init /\ [][Next]_vars

\* Expiry: an early-morning class (T1) and a daytime class (T3), scanned
\* around expires_at = date + 2 h.
ExpiryInstants == {
    At(0, 22, 0, 0), At(1, 2, 0, 0), At(1, 2, 0, 1), At(1, 10, 5, 0) }

NextExpiry ==
    \/ Tick(ExpiryInstants)
    \/ \E r \in {ClassT1, ClassT3} : FlaskCreateClass("i1", r)
    \/ \E k \in 1..MaxClasses : FlaskGenerateQR("i1", k)
    \/ \E k \in 1..MaxClasses : SvcGenerateQR("i1", k)
    \/ \E u \in {"u1"}, h \in 1..MaxQR : FlaskScan(u, h)
    \/ \E u \in {"u1"}, h \in 1..MaxQR : SvcScan(u, h)

SpecExpiry == Init /\ [][NextExpiry]_vars

\* Duplicates: a class whose date carries a time of day (T4), scanned
\* repeatedly before and after midnight.
DupInstants == {
    At(0, 22, 0, 0), At(0, 23, 35, 0), At(1, 0, 10, 0), At(1, 0, 10, 10),
    At(1, 0, 20, 0) }

NextDup ==
    \/ Tick(DupInstants)
    \/ \E r \in {ClassT1} : FlaskCreateClass("i1", r)
    \/ \E r \in {ClassT4} : SvcCreateClass("i1", r)
    \/ \E k \in 1..MaxClasses : SvcGenerateQR("i1", k)
    \/ \E u \in {"u1"}, h \in 1..MaxQR : FlaskScan(u, h)
    \/ \E u \in {"u1"}, h \in 1..MaxQR : SvcScan(u, h)

SpecDup == Init /\ [][NextDup]_vars

\* Issuance: the owner, another instructor and a student ask for a credential.
IssueInstants == { At(0, 22, 0, 0), At(1, 0, 30, 0), At(1, 2, 0, 1), At(2, 0, 30, 0) }

NextIssue ==
    \/ Tick(IssueInstants)
    \/ \E r \in {ClassT1} : FlaskCreateClass("i1", r)
    \/ \E r \in {ClassT4, ClassT5} : SvcCreateClass("i1", r)
    \/ \E c \in {"i1", "i2", "u1"}, k \in 1..MaxClasses : FlaskGenerateQR(c, k)
    \/ \E c \in {"i1", "i2", "u1"}, k \in 1..MaxClasses : SvcGenerateQR(c, k)

SpecIssue == Init /\ [][NextIssue]_vars

\* Rate limiting: scans of AttendanceService a few seconds apart.
RateInstants == {
    At(0, 22, 0, 0), At(1, 0, 30, 0), At(1, 0, 30, 10), At(1, 0, 30, 30),
    At(1, 0, 31, 0), At(2, 0, 30, 10) }

NextRate ==
    \/ Tick(RateInstants)
    \/ \E r \in {ClassT1} : SvcCreateClass("i1", r)
    \/ \E k \in 1..MaxClasses : SvcGenerateQR("i1", k)
    \/ \E u \in {"u1", "u2"}, h \in 1..MaxQR : SvcScan(u, h)

SpecRate == Init /\ [][NextRate]_vars

\* Concurrency: requests of one user for one credential, interleaved.
ConcInstants == { At(0, 22, 0, 0), At(1, 0, 35, 0), At(1, 2, 0, 1) }

NextConc ==
    \/ Tick(ConcInstants)
    \/ \E r \in {ClassT1} : FlaskCreateClass("i1", r)
    \/ \E k \in 1..MaxClasses : FlaskGenerateQR("i1", k)
    \/ \E p \in 1..NProcs, impl \in {"flask", "svc"}, h \in 1..MaxQR :
          ScanBegin(p, impl, "u1", h)
    \/ \E p \in 1..NProcs : ScanFindExisting(p)
    \/ \E p \in 1..NProcs : ScanInsert(p)

SpecConc == Init /\ [][NextConc]_vars

\* Sharing: two users present the same credential to the Flask handler.
ShareInstants == { At(0, 22, 0, 0), At(1, 0, 30, 0), At(1, 0, 45, 0) }

NextShare ==
    \/ Tick(ShareInstants)
    \/ \E r \in {ClassT1} : FlaskCreateClass("i1", r)
    \/ \E k \in 1..MaxClasses : FlaskGenerateQR("i1", k)
    \/ \E u \in {"u1", "u2"}, h \in 1..MaxQR : FlaskScan(u, h)

SpecShare == Init /\ [][NextShare]_vars

\* Deactivation: a class is deactivated before or after its credential is
\* issued and scanned.
ActiveInstants == { At(0, 22, 0, 0), At(1, 0, 30, 0), At(1, 2, 0, 1) }

NextActive ==
    \/ Tick(ActiveInstants)
    \/ \E r \in {ClassT1} : FlaskCreateClass("i1", r)
    \/ \E k \in 1..MaxClasses : DeactivateClass(k)
    \/ \E k \in 1..MaxClasses : FlaskGenerateQR("i1", k)
    \/ \E u \in {"u1"}, h \in 1..MaxQR : FlaskScan(u, h)
    \/ \E u \in {"u1"}, h \in 1..MaxQR : SvcScan(u, h)

SpecActive == Init /\ [][NextActive]_vars

\* Repeated scans: one user scans again through both implementations,
\* inside and outside the cooldown.
FrameInstants == { At(0, 22, 0, 0), At(1, 0, 30, 0), At(1, 0, 30, 10), At(1, 0, 30, 30) }

NextFrame ==
    \/ Tick(FrameInstants)
    \/ \E r \in {ClassT1} : SvcCreateClass("i1", r)
    \/ \E k \in 1..MaxClasses : SvcGenerateQR("i1", k)
    \/ \E u \in {"u1"}, h \in 1..MaxQR : FlaskScan(u, h)
    \/ \E u \in {"u1"}, h \in 1..MaxQR : SvcScan(u, h)

SpecFrame == Init /\ [][NextFrame]_vars

\* Creation: instructors and a student post classes, one of them ending
\* before it starts.
CreateInstants == { At(0, 22, 0, 0), At(1, 9, 30, 0), At(1, 10, 5, 0) }

NextCreate ==
    \/ Tick(CreateInstants)
    \/ \E c \in {"i1", "i2", "u1"}, r \in {ClassT1, ClassT3, ClassT6} :
          FlaskCreateClass(c, r)
    \/ \E k \in 1..MaxClasses : FlaskGenerateQR("i1", k)
    \/ \E u \in {"u1"}, h \in 1..MaxQR : FlaskScan(u, h)

SpecCreate == Init /\ [][NextCreate]_vars

\* Cooldown release: a user scans for classes of two consecutive days.
CooldownInstants == {
    At(0, 22, 0, 0), At(1, 0, 30, 0), At(1, 0, 30, 30), At(2, 0, 30, 10) }

NextCooldown ==
    \/ Tick(CooldownInstants)
    \/ \E r \in {ClassT1, ClassT7} : SvcCreateClass("i1", r)
    \/ \E k \in 1..MaxClasses : SvcGenerateQR("i1", k)
    \/ \E u \in {"u1"}, h \in 1..MaxQR : SvcScan(u, h)

SpecCooldown == Init /\ [][NextCooldown]_vars

\* Authentication: two students post scan requests whose body names either
\* of them.
AuthInstants == { At(0, 22, 0, 0), At(1, 0, 30, 0) }

NextAuth ==
    \/ Tick(AuthInstants)
    \/ \E r \in {ClassT1} : FlaskCreateClass("i1", r)
    \/ \E k \in 1..MaxClasses : FlaskGenerateQR("i1", k)
    \/ \E u \in Students, d \in ScanBodies : FlaskScanRequest(u, d)
    \/ \E u \in Students, d \in ScanBodies : SvcScanRequest(u, d)

SpecAuth == Init /\ [][NextAuth]_vars

\* The limiter alone: calls for two keys at instants on both sides of the
\* window's edge.
LimitInstants ==
    { At(0, 22, 0, 0), At(0, 22, 0, 30), At(0, 22, 0, 59), At(0, 22, 1, 0),
      At(0, 22, 1, 1), At(0, 22, 1, 30), At(0, 22, 2, 0) }

NextLimit ==
    \/ Tick(LimitInstants)
    \/ \E key \in LimiterKeys : CheckRateLimit(key)

SpecLimit == Init /\ [][NextLimit]_vars

\* One meal code, created at the initial instant and expiring 24 hours later,
\* with instants before, at and after its expires_at.
MealInstants ==
    { At(0, 22, 0, 0), At(0, 23, 0, 0), At(1, 12, 0, 0), At(1, 22, 0, 0),
      At(1, 22, 0, 1), At(2, 8, 0, 0) }

NextMeal ==
    \/ Tick(MealInstants)
    \/ \E a \in Admins : MarkAsUsed(a)
    \/ IsValid

SpecMeal == Init /\ [][NextMeal]_vars

\* The connection manager alone.  The event loop resumes the coroutine of
\* connect() after every await: each ping ends within the client's timeouts
\* and asyncio.sleep ends after wait_time, so a step of a running call is
\* taken whenever it stays enabled.
ConnectStep == (\E o \in AttemptOutcomes : ConnectAttempt(o)) \/ ConnectSleep

NextConnect ==
    \/ Connect
    \/ \E o \in AttemptOutcomes : ConnectAttempt(o)
    \/ ConnectSleep
    \/ Disconnect

SpecConnect == Init /\ [][NextConnect]_vars /\ WF_vars(ConnectStep)

----------------------------------------------------------------------------
(* Properties                                                              *)

ClassStart(c) == Combine(classes[c].date, classes[c].start_time)
ClassEnd(c) == Combine(classes[c].date, classes[c].end_time)

Records == {attendance[i] : i \in 1..Len(attendance)}

\* C6: for a class that lasts at least 15 minutes, every stored attendance
\* record is early iff it was taken before the class start, present iff taken
\* from the start up to and including start + 15 min, late iff taken after
\* that up to and including the class end, and absent iff taken after the end.
C6_StatusClassification ==
    \A r \in Records :
        LET t == r.check_in_time
            s == ClassStart(r.class_id)
            e == ClassEnd(r.class_id)
        IN  e - s >= 15 * Minute =>
              /\ (r.status = "early") <=> (t < s)
              /\ (r.status = "present") <=> (s <= t /\ t <= s + 15 * Minute)
              /\ (r.status = "late") <=> (s + 15 * Minute < t /\ t <= e)
              /\ (r.status = "absent") <=> (t > e)

\* Two scans of a long class, one at start + 15 min exactly and one at the
\* class end exactly, have been recorded.
C6_Witness ==
    \E r1, r2 \in Records :
        /\ ClassEnd(r1.class_id) - ClassStart(r1.class_id) >= 15 * Minute
        /\ r1.check_in_time = ClassStart(r1.class_id) + 15 * Minute
        /\ r1.status = "present"
        /\ r2.class_id = r1.class_id
        /\ r2.check_in_time = ClassEnd(r2.class_id)
        /\ r2.status = "late"

\* C7: every stored attendance record whose scan time is after the end of
\* its class has status absent, whatever the length of the class.
C7_AbsentAfterEnd ==
    \A r \in Records :
        r.check_in_time > ClassEnd(r.class_id) => r.status = "absent"

\* C2: requests served one at a time never leave two attendance records of
\* the same class and user taken on the same calendar day.
C2_OneRecordPerDay ==
    \A i, j \in 1..Len(attendance) :
        (/\ i # j
         /\ attendance[i].class_id = attendance[j].class_id
         /\ attendance[i].user_id = attendance[j].user_id)
        => DateOf(attendance[i].check_in_time) # DateOf(attendance[j].check_in_time)

\* C3: a credential issued by the class's instructor before the class starts
\* is accepted by every scan made inside the class window, and after a scan at
\* start + 5 min the user holds a record of the class, which is present if it
\* was taken by that scan.
C3_RedeemableDuringClass ==
    (/\ response.op = "scan_qr_code"
     /\ response.arg \in 1..Len(qr_codes))
    => LET qr == qr_codes[response.arg]
           c == qr.class_id
       IN  (/\ qr.created_by = classes[c].instructor_id
            /\ qr.created_at < ClassStart(c)
            /\ ClassStart(c) <= response.at
            /\ response.at <= ClassEnd(c))
           => /\ response.code \in {200, 409}
              /\ response.at = ClassStart(c) + 5 * Minute
                 => \E r \in Records :
                      /\ r.user_id = response.user
                      /\ r.class_id = c
                      /\ r.check_in_time = response.at => r.status = "present"

\* C4: a scan made at or after the credential's expires_at (equality
\* included) is refused, by the Flask handler with "QR code has expired", and
\* no attendance record is taken at or after the expires_at of its credential.
C4_RejectedFromExpiry ==
    /\ (/\ response.op = "scan_qr_code"
        /\ response.arg \in 1..Len(qr_codes)
        /\ qr_codes[response.arg].is_active
        /\ response.at >= qr_codes[response.arg].expires_at)
       => /\ response.code # 200
          /\ response.impl = "flask" => response.detail = "QR code has expired"
    /\ \A r \in Records : r.check_in_time < qr_codes[r.qr_code].expires_at

RejectedAsExpired(h) ==
    /\ response.op = "scan_qr_code"
    /\ response.arg = h
    /\ response.detail = "QR code has expired"

Redeemed(h) ==
    /\ response.op = "scan_qr_code"
    /\ response.arg = h
    /\ response.code = 200

\* C5: once a scan of a credential was refused as expired, no later scan of
\* that credential succeeds, and no step changes the expires_at of a stored
\* credential.
C5_ExpiryMonotone ==
    /\ \A h \in 1..MaxQR : [](RejectedAsExpired(h) => [](~Redeemed(h)))
    /\ [][\A h \in 1..Len(qr_codes) :
             qr_codes'[h].expires_at = qr_codes[h].expires_at]_vars

\* A credential that was redeemed is refused as expired after a further
\* credential was generated for the class past the first one's expiry.
C5_Witness ==
    /\ RejectedAsExpired(1)
    /\ \E r \in Records : r.qr_code = 1
    /\ Len(qr_codes) >= 2
    /\ qr_codes[2].class_id = qr_codes[1].class_id
    /\ qr_codes[2].created_at > qr_codes[1].expires_at

\* C8: a generate_qr_code call for an existing class by anyone but the
\* class's instructor ends with 403 and leaves qr_codes and classes unchanged.
C8_IssuerAuthorization ==
    [][(/\ response'.op = "generate_qr_code"
        /\ response'.at = clock'
        /\ clock' = clock
        /\ response'.arg \in 1..Len(classes)
        /\ response'.user # classes[response'.arg].instructor_id)
       => /\ response'.code = 403
          /\ qr_codes' = qr_codes
          /\ classes' = classes]_vars

\* Another instructor was refused for a class that already has a credential.
C8_Witness ==
    /\ response.op = "generate_qr_code"
    /\ response.code = 403
    /\ response.arg \in 1..Len(classes)
    /\ is_instructor(response.user)
    /\ response.user # classes[response.arg].instructor_id
    /\ \E h \in 1..Len(qr_codes) : qr_codes[h].class_id = response.arg

\* C9: an AttendanceService scan that a user makes less than 30 seconds after
\* that user's previous scan attempt, successful or not, ends with 429 and
\* stores no attendance record.  (Stated on two consecutive requests.)
C9_Throttled ==
    [][(/\ response.op = "scan_qr_code"
        /\ response.impl = "svc"
        /\ response'.op = "scan_qr_code"
        /\ response'.impl = "svc"
        /\ response'.user = response.user
        /\ response'.at = clock'
        /\ clock' = clock
        /\ response'.at - response.at < 30)
       => /\ response'.code = 429
          /\ attendance' = attendance]_vars

\* C10: a scan repeated by a user whose record for the presented credential
\* is already stored, while the credential is still valid, ends with 409 and
\* stores no second record.
C10_IdempotentRetry ==
    [][(/\ response'.op = "scan_qr_code"
        /\ response'.at = clock'
        /\ clock' = clock
        /\ response'.arg \in 1..Len(qr_codes)
        /\ qr_codes[response'.arg].is_active
        /\ clock <= qr_codes[response'.arg].expires_at
        /\ \E r \in Records :
              r.user_id = response'.user /\ r.qr_code = response'.arg)
       => /\ response'.code = 409
          /\ attendance' = attendance]_vars

\* C1: when all requests of one user for one valid credential have returned,
\* each from its existing-attendance query or from its insert, exactly one
\* attendance record of that class and user is stored, one request ended
\* with 200 and all the others with 409.
C1_ExactlyOnce ==
    (/\ \A p \in 1..NProcs : procs[p].pc = "done"
     /\ \A p, q \in 1..NProcs :
           procs[p].user = procs[q].user /\ procs[p].qr = procs[q].qr
     /\ \A p \in 1..NProcs : procs[p].exit \in {"existing", "inserted", "insert_error"})
    => /\ Cardinality({i \in 1..Len(attendance) :
                         /\ attendance[i].user_id = procs[1].user
                         /\ attendance[i].class_id = qr_codes[procs[1].qr].class_id}) = 1
       /\ Cardinality({p \in 1..NProcs : procs[p].code = 409}) = NProcs - 1
       /\ Cardinality({p \in 1..NProcs : procs[p].code = 200}) = 1

\* C11: the credential checks and the write are one step: whenever a request
\* appends an attendance record, the record's credential is active and not
\* expired at that moment, and the record's check_in_time is earlier than the
\* credential's expires_at.
C11_AtomicValidation ==
    [][Len(attendance') > Len(attendance)
       => LET r == attendance'[Len(attendance')]
              qr == qr_codes[r.qr_code]
          IN  /\ qr.is_active
              /\ clock < qr.expires_at
              /\ r.check_in_time < qr.expires_at]_vars

\* C12: a successful scan leaves the credential documents as they were, and
\* a user without a record of the class who presents an unexpired, active
\* credential that a different user has already redeemed is redeemed too:
\* the scan ends with 200 and stores that user's record.
C12_PerSubjectUse ==
    [][(/\ response'.op = "scan_qr_code"
        /\ response'.at = clock'
        /\ clock' = clock)
       => /\ response'.code = 200 => qr_codes' = qr_codes
          /\ (/\ QRCheck(response'.arg, clock) = "ok"
              /\ \E r \in Records :
                    r.qr_code = response'.arg /\ r.user_id # response'.user
              /\ ~ \E r \in Records :
                    /\ r.user_id = response'.user
                    /\ r.class_id = qr_codes[response'.arg].class_id)
             => /\ response'.code = 200
                /\ qr_codes' = qr_codes
                /\ Len(attendance') = Len(attendance) + 1
                /\ attendance'[Len(attendance')].user_id = response'.user
                /\ attendance'[Len(attendance')].qr_code = response'.arg]_vars

C14_ExpiresAfterIssue ==
    \A h \in 1..Len(qr_codes) : qr_codes[h].expires_at > qr_codes[h].created_at

\* C15: no stored credential outlives its class by more than two hours:
\* expires_at is at most the class's end instant (date combined with
\* end_time) plus 2 h.
C15_ExpiryClamped ==
    \A h \in 1..Len(qr_codes) :
        qr_codes[h].expires_at <= ClassEnd(qr_codes[h].class_id) + 2 * Hour

\* C16: a generate_qr_code call by the class's own instructor for a class
\* that is inactive or whose end instant has passed is refused with 400 and
\* stores no credential.
C16_NoIssueForEndedClass ==
    [][(/\ response'.op = "generate_qr_code"
        /\ response'.at = clock'
        /\ clock' = clock
        /\ response'.arg \in 1..Len(classes)
        /\ response'.user = classes[response'.arg].instructor_id
        /\ \/ ~ classes[response'.arg].is_active
           \/ clock > ClassEnd(response'.arg))
       => /\ response'.code = 400
          /\ qr_codes' = qr_codes]_vars

\* C17: the credential checks of a scan that is not throttled run in the
\* order existence, is_active, expiry, and the first failing one gives the
\* reported reason: an unknown hash reports "Invalid QR code", a stored
\* inactive credential reports "QR code is no longer active" whether or not
\* it is expired, and "QR code has expired" is reported exactly for a stored,
\* active credential past its expires_at.
C17_CheckOrder ==
    [][(/\ response'.op = "scan_qr_code"
        /\ response'.at = clock'
        /\ clock' = clock
        /\ response'.impl = "svc"
              => ~ RateLimited(rate_limit_cache, response'.user, clock))
       => LET h == response'.arg
              known == h \in 1..Len(qr_codes)
          IN  /\ ~ known => response'.detail = "Invalid QR code"
              /\ (known /\ ~ qr_codes[h].is_active)
                    => response'.detail = "QR code is no longer active"
              /\ response'.detail = "QR code has expired"
                    <=> (/\ known
                         /\ qr_codes[h].is_active
                         /\ clock > qr_codes[h].expires_at)]_vars

\* C18: AttendanceService.scan_qr_code reports a throttled attempt with 429,
\* an unknown, inactive or expired credential with 400 and an already marked
\* attendance with 409, and none of the three with the generic 500
\* "Failed to process attendance".
C18_DistinctErrorKinds ==
    [][(/\ response'.op = "scan_qr_code"
        /\ response'.impl = "svc"
        /\ response'.at = clock'
        /\ clock' = clock)
       => LET u == response'.user
              h == response'.arg
              throttled == RateLimited(rate_limit_cache, u, clock)
              bad == QRCheck(h, clock) # "ok"
          IN  /\ throttled => response'.code = 429
              /\ (~ throttled /\ bad) => response'.code = 400
              /\ (/\ ~ throttled
                  /\ ~ bad
                  /\ ExistingAttendance(attendance, qr_codes[h].class_id, u, clock))
                    => response'.code = 409]_vars

\* C19: a scan that ends as duplicate attendance (409), or that is throttled
\* by the rate-limiting check of AttendanceService, leaves the attendance,
\* qr_codes and classes collections and the rate-limit cache as they were.
C19_RejectionsChangeNothing ==
    [][(/\ response'.op = "scan_qr_code"
        /\ response'.at = clock'
        /\ clock' = clock
        /\ \/ response'.code = 409
           \/ /\ response'.impl = "svc"
              /\ RateLimited(rate_limit_cache, response'.user, clock))
       => /\ attendance' = attendance
          /\ qr_codes' = qr_codes
          /\ classes' = classes
          /\ rate_limit_cache' = rate_limit_cache]_vars

\* A user with a stored record was throttled 10 seconds after the successful
\* scan.
C19_Witness ==
    /\ response.op = "scan_qr_code"
    /\ response.impl = "svc"
    /\ response.code # 200
    /\ rate_limit_cache[response.user] # NoScan
    /\ response.at - rate_limit_cache[response.user] = 10
    /\ \E r \in Records : r.user_id = response.user

C21_RecordsImmutable ==
    [][/\ Len(attendance') >= Len(attendance)
       /\ \A i \in 1..Len(attendance) : attendance'[i] = attendance[i]]_vars

\* A user holding a record scanned again at a later time, with a different
\* classification, and was answered 409.
C21_Witness ==
    /\ response.op = "scan_qr_code"
    /\ response.code = 409
    /\ response.arg \in 1..Len(qr_codes)
    /\ \E r \in Records :
          /\ r.user_id = response.user
          /\ r.class_id = qr_codes[response.arg].class_id
          /\ r.check_in_time < response.at
          /\ r.status # AttendanceStatusAt(response.at, classes[r.class_id])

\* C22: issuing a credential leaves every credential issued before as it
\* was, and a Flask scan of an earlier credential that is still active and
\* unexpired passes the credential checks although a newer credential of the
\* same class exists.
C22_PriorCredentialsKept ==
    [][/\ response'.op = "generate_qr_code"
          => \A h \in 1..Len(qr_codes) : qr_codes'[h] = qr_codes[h]
       /\ (/\ response'.op = "scan_qr_code"
           /\ response'.impl = "flask"
           /\ response'.at = clock'
           /\ clock' = clock
           /\ response'.arg \in 1..Len(qr_codes)
           /\ clock <= qr_codes[response'.arg].expires_at
           /\ \E g \in 1..Len(qr_codes) :
                 /\ g > response'.arg
                 /\ qr_codes[g].class_id = qr_codes[response'.arg].class_id)
          => /\ qr_codes[response'.arg].is_active
             /\ response'.code \in {200, 409, 500}]_vars

\* The first credential of a class was redeemed after a second one had been
\* issued for the class.
C22_Witness ==
    /\ response.op = "scan_qr_code"
    /\ response.impl = "flask"
    /\ response.arg = 1
    /\ response.code = 200
    /\ Len(qr_codes) >= 2
    /\ qr_codes[2].class_id = qr_codes[1].class_id
    /\ qr_codes[2].created_at <= response.at
    /\ \E r \in Records : r.qr_code = 1 /\ r.check_in_time = response.at
    /\ qr_codes[1].is_active

\* C23: a successful generate_qr_code makes exactly one write, the insertion
\* of the new credential: qr_codes grows by that one document and the
\* classes collection is unchanged.
C23_OneDurableWrite ==
    [][(/\ response'.op = "generate_qr_code"
        /\ response'.code = 200
        /\ response'.at = clock'
        /\ clock' = clock
        /\ qr_codes' # qr_codes)
       => /\ Len(qr_codes') = Len(qr_codes) + 1
          /\ \A h \in 1..Len(qr_codes) : qr_codes'[h] = qr_codes[h]
          /\ classes' = classes]_vars

\* C24: every stored class starts before it ends: start_time < end_time.
C24_StartBeforeEnd ==
    \A c \in 1..Len(classes) : classes[c].start_time < classes[c].end_time

\* C25: an AttendanceService scan before the class start, by a user without
\* a record who presents a valid credential of an existing class, ends with
\* 200 and stores a record with status early.
C25_EarlyScanRecorded ==
    [][(/\ response'.op = "scan_qr_code"
        /\ response'.impl = "svc"
        /\ response'.at = clock'
        /\ clock' = clock
        /\ QRCheck(response'.arg, clock) = "ok"
        /\ clock < ClassStart(qr_codes[response'.arg].class_id)
        /\ ~ \E r \in Records : r.user_id = response'.user)
       => /\ response'.code = 200
          /\ Len(attendance') = Len(attendance) + 1
          /\ attendance'[Len(attendance')].user_id = response'.user
          /\ attendance'[Len(attendance')].status = "early"]_vars

\* C26: an AttendanceService scan by a user whose last successful scan lies
\* 30 seconds or more back is not throttled, however long ago that scan was:
\* with a valid credential of a started class for which the user holds no
\* record, and which nobody has redeemed, the scan ends with 200 and stores
\* the record.
C26_CooldownRelease ==
    [][(/\ response'.op = "scan_qr_code"
        /\ response'.impl = "svc"
        /\ response'.at = clock'
        /\ clock' = clock
        /\ rate_limit_cache[response'.user] # NoScan
        /\ clock - rate_limit_cache[response'.user] >= 30
        /\ QRCheck(response'.arg, clock) = "ok"
        /\ clock >= ClassStart(qr_codes[response'.arg].class_id)
        /\ ~ \E r \in Records :
              \/ /\ r.user_id = response'.user
                 /\ r.class_id = qr_codes[response'.arg].class_id
              \/ r.qr_code = response'.arg)
       => /\ response'.code = 200
          /\ Len(attendance') = Len(attendance) + 1]_vars

\* C27: every attendance record that a scan request stores carries the
\* user_id of the authenticated caller, whatever user_id the request body
\* names.
C27_RecordOfCaller ==
    [][Len(attendance') > Len(attendance)
       => /\ attendance'[Len(attendance')].user_id = request'.identity
          /\ attendance'[Len(attendance')].qr_code = request'.qr_code]_vars

\* A caller whose body named the other student was recorded under the
\* caller's own id, and the named student has no record.
C27_Witness ==
    /\ response.op = "scan_qr_code"
    /\ response.code = 200
    /\ request.user_id # request.identity
    /\ \E r \in Records :
          /\ r.user_id = request.identity
          /\ r.qr_code = request.qr_code
          /\ r.check_in_time = response.at
    /\ ~ \E r \in Records : r.user_id = request.user_id

\* The number of timestamps of a sequence that lie in [a, a + window_seconds)
CountIn(timestamps, a) ==
    Cardinality({i \in 1..Len(timestamps) :
                   timestamps[i] >= a /\ timestamps[i] < a + window_seconds})

\* The number of timestamps of a sequence less than window_seconds old
CountRecent(timestamps, now) ==
    Cardinality({i \in 1..Len(timestamps) : now - timestamps[i] < window_seconds})

\* C28: after every call of check_rate_limit for a key, no interval of window
\* length (closed at its start, open at its end) holds more than max_requests
\* calls that returned True; a call that returns False adds no timestamp to
\* the store; and a call that finds fewer than max_requests recorded
\* timestamps inside the window returns True.
C28_SlidingWindow ==
    [][limiter'.calls = limiter.calls + 1 =>
        LET key == response'.user
        IN  /\ \A i \in 1..Len(limiter'.granted[key]) :
                  CountIn(limiter'.granted[key], limiter'.granted[key][i]) <= max_requests
            /\ response'.detail = "False" =>
                  /\ limiter'.granted = limiter.granted
                  /\ Len(limiter'.store[key]) <= Len(limiter.store[key])
                  /\ \A i \in 1..Len(limiter'.store[key]) :
                        \E j \in 1..Len(limiter.store[key]) :
                            limiter'.store[key][i] = limiter.store[key][j]
            /\ CountRecent(limiter.store[key], clock) < max_requests =>
                  /\ response'.detail = "True"
                  /\ limiter'.granted[key] = Append(limiter.granted[key], clock)]_vars

\* A key was refused with the window full and then, exactly one window after
\* its first grant, granted again.
C28_Witness ==
    /\ response.op = "check_rate_limit"
    /\ response.detail = "True"
    /\ Len(limiter.granted[response.user]) = max_requests + 1
    /\ limiter.calls > max_requests + 1
    /\ limiter.granted[response.user][1] + window_seconds = response.at

\* C29: once mark_as_used has been called on a meal code, is_valid() is False
\* in every later state, and a call of is_valid() returns True only for a code
\* that is unused and whose expires_at has not passed.
C29_UsedIsTerminal ==
    /\ [](meal_qr.is_used => [](~ is_valid(meal_qr, clock)))
    /\ []((response.op = "is_valid" /\ response.detail = "True")
            => /\ ~ meal_qr.is_used
               /\ response.at <= meal_qr.expires_at)
    /\ [][(response'.op = "mark_as_used" /\ response' # response)
            => /\ meal_qr'.is_used
               /\ ~ is_valid(meal_qr', clock')]_vars

\* A code valid until an admin marked it was asked again, still unexpired,
\* and answered False.
C29_Witness ==
    /\ response.op = "is_valid"
    /\ response.detail = "False"
    /\ meal_qr.is_used
    /\ meal_qr.used_at > meal_qr.created_at
    /\ response.at > meal_qr.used_at
    /\ response.at <= meal_qr.expires_at

\* A call of connect() that found the manager disconnected has returned
ReturnedFromLoop ==
    /\ db_manager.pc = "returned"
    /\ Len(db_manager.outcomes) > 0

\* C30: a running connect() returns; having started disconnected it has made
\* at most 3 attempts, with waits of 1 s then 2 s between them; it returns
\* True exactly when its last attempt succeeded, with _is_connected True; and
\* it returns False with _is_connected False after 3 connection errors or
\* right after the first attempt that raised another exception.
C30_ConnectTerminates ==
    /\ (db_manager.pc \in {"attempt", "sleep"}) ~> (db_manager.pc = "returned")
    /\ [](Len(db_manager.outcomes) <= 3 /\ Len(db_manager.slept) <= 2)
    /\ [](ReturnedFromLoop =>
            LET o == db_manager.outcomes
                n == Len(o)
                result == response.detail = "True"
            IN  /\ response.op = "connect"
                /\ db_manager.slept = SubSeq(<<1, 2>>, 1, n - 1)
                /\ \A i \in 1..(n - 1) : o[i] = "connection_error"
                /\ result <=> (\E i \in 1..n : o[i] = "ok")
                /\ result => db_manager._is_connected
                /\ ~ result =>
                      /\ ~ db_manager._is_connected
                      /\ \/ n = 3 /\ o[3] = "connection_error"
                         \/ o[n] \in {"other_error", "client_error"})

\* connect() returned True from its third attempt, after two connection
\* errors and waits of 1 s and 2 s.
C30_Witness ==
    /\ db_manager.pc = "returned"
    /\ response.op = "connect"
    /\ response.detail = "True"
    /\ db_manager.outcomes = <<"connection_error", "connection_error", "ok">>
    /\ db_manager.slept = <<1, 2>>
    /\ db_manager._is_connected
    /\ clock = response.at

====
